---- MODULE Spec2Model ----
(***************************************************************************)
(* A model of the TAGIAS API client (src/index.js): the Tagias class, its  *)
(* constructor, its seven operations, apiCall and TagiasError.             *)
(*                                                                         *)
(* JavaScript values are tagged records: [t |-> "string", v |-> "abc"],    *)
(* [t |-> "number", v |-> 3], [t |-> "boolean", v |-> TRUE],               *)
(* [t |-> "array", v |-> <<...>>], [t |-> "Date", ...], and the two values *)
(* without content, Undefined and Null.  A plain object (a JSON body, a    *)
(* package, an operation) is a function from its property names to tagged  *)
(* values; a property that is absent is not in its DOMAIN.                 *)
(***************************************************************************)
EXTENDS Integers, Sequences, FiniteSets, Bags, TLC

\* ------------------------------------------------------------- bounds
\* the number of calls that can be in flight at the same time
MaxCalls == 2
\* the longest pictures array given to createPackage
MaxPictures == 2
\* the longest packages / operations / pictures array of a response
MaxItems == 2

\* ---------------------------------------------------- JavaScript values
Undefined == [t |-> "undefined"]
Null == [t |-> "null"]
Str(s) == [t |-> "string", v |-> s]
Num(n) == [t |-> "number", v |-> n]
Bool(b) == [t |-> "boolean", v |-> b]
Arr(s) == [t |-> "array", v |-> s]

\* ToBoolean, as used by `if (x)` and `!x`
Truthy(x) ==
  CASE "t" \notin DOMAIN x -> TRUE
    [] x.t = "undefined" -> FALSE
    [] x.t = "null" -> FALSE
    [] x.t = "string" -> x.v # ""
    [] x.t = "number" -> x.v # 0
    [] x.t = "boolean" -> x.v
    [] OTHER -> TRUE

\* ToString, as used by a template literal `${x}`
ToStr(x) ==
  CASE x.t = "undefined" -> "undefined"
    [] x.t = "null" -> "null"
    [] x.t = "string" -> x.v
    [] x.t = "number" -> ToString(x.v)
    [] OTHER -> "[object]"

\* whether a value is a plain object (and not one of the tagged values)
IsObject(x) == "t" \notin DOMAIN x

\* property access o.f on a value that is not null or undefined:
\* a property a value does not have reads as undefined
Get(o, f) == IF IsObject(o) /\ f \in DOMAIN o THEN o[f] ELSE Undefined

\* o with o.f = x assigned
Put(o, f, x) == [g \in DOMAIN o \cup {f} |-> IF g = f THEN x ELSE o[g]]

\* o after `delete o.f`
Delete(o, f) == [g \in DOMAIN o \ {f} |-> o[g]]

\* Date.parse of the strings the model uses, in seconds since the epoch;
\* any other string does not parse
DateParse(s) ==
  CASE s = "2020-05-21T19:18:19.000Z" -> [valid |-> TRUE, time |-> 1590088699]
    [] s = "2020-06-01T00:00:00.000Z" -> [valid |-> TRUE, time |-> 1590969600]
    [] OTHER -> [valid |-> FALSE, time |-> 0]

\* new Date(x) of a string x: a Date object, an Invalid Date when x does not parse
NewDate(x) == [t |-> "Date", valid |-> DateParse(ToStr(x)).valid,
               time |-> DateParse(ToStr(x)).time]

IsDate(x) == x.t = "Date"

\* ------------------------------------------------------------ constants
TagiasErrors ==
  {"NONAME", "NOPICTURES", "BADPICTURES", "NOLABELS", "BADCALLBACK", "BADBASEURL",
   "BADTYPE", "BADSTATUS", "NOTFOUND", "INTERNAL", "NOAPIKEY", "UNAUTHORIZED"}

TAGIAS_URL == "https://p.tagias.com/api/v2/tagias"

\* ----------------------------------------------------------- the errors
\* a variant with the entry of BADCALLBACK copied to BADBASEURL
translateErrorCode_SameMessage(code) ==
  CASE code = Str("NONAME") -> "The package name is missing"
    [] code = Str("NOPICTURES") -> "The pictures array is empty or missing"
    [] code = Str("BADPICTURES") -> "Some of the provided pictures could not be accessed or their URLs are malformed"
    [] code = Str("NOLABELS") -> "The labels array for the classification task is missing (or there are less than 2 items in the array)"
    [] code = Str("BADCALLBACK") -> "The callback URL is malformed"
    [] code = Str("BADBASEURL") -> "The callback URL is malformed"
    [] code = Str("BADTYPE") -> "The type value is not one of the allowed values"
    [] code = Str("BADSTATUS") -> "The status value is not one of the allowed values or this kind of change is not allowed"
    [] code = Str("NOTFOUND") -> "The specified object does not exist"
    [] code = Str("INTERNAL") -> "An internal error has occurred"
    [] code = Str("NOAPIKEY") -> "TAGIAS API Key is not provided"
    [] code = Str("UNAUTHORIZED") -> "TAGIAS API Key is incorrect"
    [] OTHER -> "Unknown error code"

\* the table of messages
translateErrorCode(code) ==
  CASE code = Str("NONAME") -> "The package name is missing"
    [] code = Str("NOPICTURES") -> "The pictures array is empty or missing"
    [] code = Str("BADPICTURES") -> "Some of the provided pictures could not be accessed or their URLs are malformed"
    [] code = Str("NOLABELS") -> "The labels array for the classification task is missing (or there are less than 2 items in the array)"
    [] code = Str("BADCALLBACK") -> "The callback URL is malformed"
    [] code = Str("BADBASEURL") -> "The baseurl URL is malformed"
    [] code = Str("BADTYPE") -> "The type value is not one of the allowed values"
    [] code = Str("BADSTATUS") -> "The status value is not one of the allowed values or this kind of change is not allowed"
    [] code = Str("NOTFOUND") -> "The specified object does not exist"
    [] code = Str("INTERNAL") -> "An internal error has occurred"
    [] code = Str("NOAPIKEY") -> "TAGIAS API Key is not provided"
    [] code = Str("UNAUTHORIZED") -> "TAGIAS API Key is incorrect"
    [] OTHER -> "Unknown error code"

\* new TagiasError(code)
TagiasError(code) ==
  [name |-> "TagiasError", code |-> code, message |-> translateErrorCode(code)]

\* the TypeError the runtime throws on a property access on null or undefined
TypeError == [name |-> "TypeError"]

\* how a call, or the constructor, ends
Return(x) == [kind |-> "return", value |-> x]
Throw(e) == [kind |-> "throw", error |-> e]

IsTagiasError(out) == out.kind = "throw" /\ out.error.name = "TagiasError"

\* ------------------------------------------------------------ the state
VARIABLES
  constructed,  \* "no": new Tagias(...) not yet evaluated; "yes": it returned; "threw"
  given,        \* the argument new Tagias(...) was evaluated with
  thrown,       \* what the constructor threw, Undefined when nothing
  apiKey,       \* this.apiKey, Undefined before the constructor assigns it
  instance,     \* this.instance, Undefined before the constructor assigns it
  pending,      \* the bag of calls awaiting their response, each with its request
  last          \* the call that settled last, with its response and its outcome

vars == <<constructed, given, thrown, apiKey, instance, pending, last>>

NoCall == [op |-> "none"]

\* ------------------------------------------------------ the constructor
\* the arguments new Tagias(...) is evaluated with: nothing, null, the empty
\* string, and two keys
ApiKeys == {Undefined, Null, Str(""), Str("test"), Str("whLUN5vk")}

\* axios.create({ headers: {...} }) of the constructor
\* (a variant whose Authorization is a plain string, not a template literal)
createInstance_Quoted(key) ==
  [headers |-> ("Content-Type" :> "application/json")
               @@ ("Authorization" :> "Api-Key ${this.apiKey}")]

createInstance(key) ==
  [headers |-> ("Content-Type" :> "application/json")
               @@ ("Authorization" :> ("Api-Key " \o ToStr(key)))]

\* the guard `!apiKey` of the constructor
\* (a variant that only notices a missing argument)
NoApiKey_UndefinedOnly(key) == key = Undefined

NoApiKey(key) == ~Truthy(key)

\* new Tagias(key)
Constructor(key) ==
  /\ constructed = "no"
  /\ given' = key
  /\ IF NoApiKey(key)
       THEN /\ constructed' = "threw"
            /\ thrown' = TagiasError(Str("NOAPIKEY"))
            /\ UNCHANGED <<apiKey, instance>>
       ELSE /\ constructed' = "yes"
            /\ apiKey' = key
            /\ instance' = createInstance(key)
            /\ UNCHANGED thrown
  /\ UNCHANGED <<pending, last>>

Init ==
  /\ constructed = "no"
  /\ given = Undefined
  /\ thrown = Undefined
  /\ apiKey = Undefined
  /\ instance = Undefined
  /\ pending = EmptyBag
  /\ last = NoCall

\* ---------------------------------------------------------- the requests
\* this.instance.get / post / patch: the request the shared transport sends,
\* carrying the headers the instance was created with
Send(method, url, data) ==
  [method |-> method, url |-> url, data |-> data, headers |-> instance.headers]

\* the identifiers the calls are given
Ids == {Str("p1"), Str("p2")}

\* pictures arrays of every length up to MaxPictures
Pic(i) == Str("dog." \o ToString(8000 + i) \o ".jpg")
PictureLists == {Arr([i \in 1..n |-> Pic(i)]) : n \in 0..MaxPictures}

\* the arguments of createPackage: those of src/test.js, with every pictures
\* array, and labels_required omitted or given
CreateArgs ==
  [name : {Str("Test package")}, type : {Str("Keypoints")},
   descr : {Str("Put one point only in the center of the image")},
   labels : {Null}, callback : {Null}, baseurl : {Str("https://p.tagias.com/samples/")},
   pictures : PictureLists, labels_required : {Undefined, Bool(TRUE)}]

getPackagesRequest == Send("get", TAGIAS_URL \o "/packages", Undefined)

\* the default parameter value `labels_required = null`
DefaultNull(x) == IF x = Undefined THEN Null ELSE x

\* the body of the request of createPackage
\* (a variant with labels and pictures exchanged)
createPackageData_Swapped(a) ==
  [name |-> a.name, type |-> a.type, descr |-> a.descr, labels |-> a.pictures,
   callback |-> a.callback, baseurl |-> a.baseurl, pictures |-> a.labels,
   labels_required |-> DefaultNull(a.labels_required)]

createPackageData(a) ==
  [name |-> a.name, type |-> a.type, descr |-> a.descr, labels |-> a.labels,
   callback |-> a.callback, baseurl |-> a.baseurl, pictures |-> a.pictures,
   labels_required |-> DefaultNull(a.labels_required)]

createPackageRequest(a) == Send("post", TAGIAS_URL \o "/packages", createPackageData(a))

setPackageStatusRequest(a) ==
  Send("patch", TAGIAS_URL \o "/packages/" \o ToStr(a.id), [status |-> a.status])

getPackageRequest(a) == Send("get", TAGIAS_URL \o "/packages/" \o ToStr(a.id), Undefined)

requestResultRequest(a) ==
  Send("post", TAGIAS_URL \o "/packages/result/" \o ToStr(a.id), Undefined)

\* (a variant of getResult with the path of getPackage)
getResultRequest_PackagePath(a) ==
  Send("get", TAGIAS_URL \o "/packages/" \o ToStr(a.id), Undefined)

getResultRequest(a) ==
  Send("get", TAGIAS_URL \o "/packages/result/" \o ToStr(a.id), Undefined)

getBalanceRequest == Send("get", TAGIAS_URL \o "/balance", Undefined)

\* the arguments of a call that takes none
NoArgs == [argc |-> 0]

\* a call in flight
\* (sent: how many times the call's request has been handed to the transport;
\* func() is invoked once, by the await of apiCall)
Call(op, args, req) == [op |-> op, args |-> args, req |-> req, sent |-> 1]

\* an operation can be called on a constructed client; the caller that is being
\* handed an outcome runs before anything else does
CanCall ==
  /\ constructed = "yes"
  /\ last = NoCall
  /\ BagCardinality(pending) < MaxCalls

\* the call starts: its request goes out and the call awaits the response
\* (a variant that keeps the request in a place all calls share, so that a new
\* request replaces that of every call in flight)
Issue_Shared(call) ==
  /\ pending' = SetToBag({[c EXCEPT !.req = call.req] : c \in BagToSet(pending)})
                   (+) SetToBag({call})
  /\ UNCHANGED <<constructed, given, thrown, apiKey, instance, last>>

Issue(call) ==
  /\ pending' = pending (+) SetToBag({call})
  /\ UNCHANGED <<constructed, given, thrown, apiKey, instance, last>>

getPackages ==
  /\ CanCall
  /\ Issue(Call("getPackages", NoArgs, getPackagesRequest))

createPackage(a) ==
  /\ CanCall
  /\ Issue(Call("createPackage", a, createPackageRequest(a)))

setPackageStatus(id, status) ==
  /\ CanCall
  /\ LET a == [id |-> id, status |-> status] IN
       Issue(Call("setPackageStatus", a, setPackageStatusRequest(a)))

getPackage(id) ==
  /\ CanCall
  /\ LET a == [id |-> id] IN Issue(Call("getPackage", a, getPackageRequest(a)))

requestResult(id) ==
  /\ CanCall
  /\ LET a == [id |-> id] IN Issue(Call("requestResult", a, requestResultRequest(a)))

getResult(id) ==
  /\ CanCall
  /\ LET a == [id |-> id] IN Issue(Call("getResult", a, getResultRequest(a)))

getBalance ==
  /\ CanCall
  /\ Issue(Call("getBalance", NoArgs, getBalanceRequest))

\* -------------------------------------------------------- the transport
\* What `await func()` of apiCall can give: the transport (axios with its default
\* validateStatus) resolves with the parsed body of a 2xx response, and rejects
\* with an error that carries the response of any other status, or no response
\* when none was received.
Resolve(data) == [kind |-> "resolve", result |-> [status |-> 200, data |-> data]]
Reject(e) == [kind |-> "reject", error |-> e]

AxiosError(response) ==
  [name |-> "AxiosError", isAxiosError |-> Bool(TRUE), response |-> response]

\* an error that is not the transport's own (thrown while the request is prepared)
PlainError == [name |-> "Error", isAxiosError |-> Undefined, response |-> Undefined]

ErrorBody(code) == [status |-> Str("error"), error |-> Str(code)]
OkBody == [status |-> Str("ok")]

\* the rejections: a 401 whatever its body is, other statuses, no response at all
Rejections ==
  {Reject(AxiosError([status |-> 401, data |-> d])) :
     d \in {OkBody, ErrorBody("NOTFOUND"), Str("Unauthorized")}}
  \cup {Reject(AxiosError([status |-> 500, data |-> Str("Internal Server Error")])),
        Reject(AxiosError([status |-> 404, data |-> ErrorBody("NOTFOUND")])),
        Reject(AxiosError(Undefined)),
        Reject(PlainError)}

\* the bodies whose status is not "ok": every code of the taxonomy, a code outside
\* it, no error property, no status property, a status in another case
FailureBodies ==
  {ErrorBody(c) : c \in TagiasErrors \cup {"TEAPOT"}}
  \cup {[status |-> Str("error")], [error |-> Str("INTERNAL")],
        [status |-> Str("OK"), error |-> Str("INTERNAL")]}

\* the bodies that are no JSON object: text the transport could not parse, and null
OtherBodies == {Str("<html>Bad Gateway</html>"), Null}

\* arrays of every length up to n of the elements of S
Arrays(S, n) == {Arr(q) : q \in UNION {[1..k -> S] : k \in 0..n}}

\* an object with the properties of base, and property f when x is given
With(base, f, x) == IF x = Undefined THEN base ELSE Put(base, f, x)

Created == Str("2020-05-21T19:18:19.000Z")
Finished == Str("2020-06-01T00:00:00.000Z")

\* packages of the list: created absent, null or a timestamp
ListedPackages ==
  {With([id |-> Str("p1"), status |-> Str("ACTIVE")], "created", c) :
     c \in {Undefined, Null, Created}}

DateFields == {"created", "started", "stopped", "finished", "updated", "delivered"}

\* full packages: the timestamps of the events that occurred, the others either
\* all absent or all null
FullPackages ==
  {[f \in {"id", "status"} \cup (IF absent THEN S ELSE DateFields) |->
      CASE f = "id" -> Str("p1")
        [] f = "status" -> Str("ACTIVE")
        [] f \in S -> IF f = "created" THEN Created ELSE Finished
        [] OTHER -> Null] :
     S \in SUBSET DateFields, absent \in BOOLEAN}

Annotations == {[name |-> Pic(1), result |-> Null]}

\* results: finished absent, null, empty, a timestamp, or text that is no date
Results ==
  {With([status |-> Str("ok"), id |-> Str("p1"), baseurl |-> Str(""), pictures |-> p],
        "finished", f) :
     p \in Arrays(Annotations, MaxItems),
     f \in {Undefined, Null, Str(""), Finished, Str("soon")}}

\* operations of the balance: date absent, empty or a timestamp
Operations ==
  {With([amount |-> Num(5), note |-> Str("Test package")], "date", d) :
     d \in {Undefined, Str(""), Created}}

Ops == {"getPackages", "createPackage", "setPackageStatus", "getPackage",
        "requestResult", "getResult", "getBalance"}

\* the bodies with status "ok" that answer each operation
OkBodies(op) ==
  CASE op = "getPackages" ->
         {OkBody} \cup {[status |-> Str("ok"), packages |-> l] :
                          l \in Arrays(ListedPackages, MaxItems)}
    [] op = "createPackage" ->
         {OkBody, [status |-> Str("ok"), id |-> Str("p3"), pictures_num |-> Num(1),
                   amount |-> Num(0)]}
         \cup {[status |-> Str("ok"), id |-> Str("p3"), pictures_num |-> Num(n)] :
                 n \in 0..MaxPictures}
    [] op = "getPackage" ->
         {OkBody} \cup {[status |-> Str("ok"), package |-> k] : k \in FullPackages}
    [] op = "getResult" -> Results
    [] op = "getBalance" ->
         {OkBody} \cup {[status |-> Str("ok"), balance |-> Num(10), operations |-> l] :
                          l \in Arrays(Operations, MaxItems)}
    [] OTHER -> {OkBody}

\* everything the transport can answer a call of op with
Responses ==
  [op \in Ops |->
     Rejections \cup {Resolve(d) : d \in FailureBodies \cup OtherBodies \cup OkBodies(op)}]

\* -------------------------------------------------------------- apiCall
\* the catch block of apiCall: a 401 response becomes UNAUTHORIZED, any other
\* error is thrown again as it is
\* (variants: one that throws every error again, one that wraps every other error)
Catch_Rethrow(e) == Throw(e)

Catch_Wrap(e) ==
  IF e.isAxiosError = Bool(TRUE) /\ Truthy(e.response) /\ e.response.status = 401
    THEN Throw(TagiasError(Str("UNAUTHORIZED")))
    ELSE Throw(TagiasError(Str("INTERNAL")))

Catch(e) ==
  IF e.isAxiosError = Bool(TRUE) /\ Truthy(e.response) /\ e.response.status = 401
    THEN Throw(TagiasError(Str("UNAUTHORIZED")))
    ELSE Throw(e)

\* apiCall after the await: the envelope's status decides
\* (a variant that only checks that status is set)
Unwrap_Truthy(result) ==
  IF result.data \in {Null, Undefined}
    THEN Throw(TypeError)
    ELSE IF ~Truthy(Get(result.data, "status"))
           THEN Throw(TagiasError(Get(result.data, "error")))
           ELSE Return(result.data)

Unwrap(result) ==
  IF result.data \in {Null, Undefined}
    THEN Throw(TypeError)
    ELSE IF Get(result.data, "status") # Str("ok")
           THEN Throw(TagiasError(Get(result.data, "error")))
           ELSE Return(result.data)

apiCall(resp) ==
  IF resp.kind = "reject" THEN Catch(resp.error) ELSE Unwrap(resp.result)

\* ------------------------------------------ the operations, after apiCall
\* `if (o.f) o.f = new Date(o.f)`
\* (a variant without the guard)
ConvertDate_Always(o, f) == Put(o, f, NewDate(Get(o, f)))

ConvertDate(o, f) == IF Truthy(Get(o, f)) THEN Put(o, f, NewDate(Get(o, f))) ELSE o

\* array.map((item, index) => { if (item.f) array[index].f = new Date(item.f) })
ConvertEach(array, f) == Arr([i \in DOMAIN array.v |-> ConvertDate(array.v[i], f)])

getPackagesResult(result) ==
  IF Get(result, "packages") = Undefined
    THEN Throw(TypeError)
    ELSE Return(ConvertEach(result.packages, "created"))

createPackageResult(result) ==
  Return([id |-> Get(result, "id"), pictures_num |-> Get(result, "pictures_num")])

setPackageStatusResult(result) == Return(Undefined)

getPackageResult(result) ==
  IF Get(result, "package") = Undefined
    THEN Throw(TypeError)
    ELSE Return(ConvertDate(ConvertDate(ConvertDate(ConvertDate(ConvertDate(ConvertDate(
           result.package, "created"), "started"), "stopped"), "finished"), "updated"),
           "delivered"))

requestResultResult(result) == Return(Undefined)

getResultResult(result) == Return(Delete(ConvertDate(result, "finished"), "status"))

\* (a variant of getBalance without `delete result.status`)
getBalanceResult_KeepStatus(result) ==
  IF Get(result, "operations") = Undefined
    THEN Throw(TypeError)
    ELSE Return(Put(result, "operations", ConvertEach(result.operations, "date")))

getBalanceResult(result) ==
  IF Get(result, "operations") = Undefined
    THEN Throw(TypeError)
    ELSE Return(Delete(Put(result, "operations", ConvertEach(result.operations, "date")),
                       "status"))

\* what the operation does with the data apiCall returned
Then(op, result) ==
  CASE op = "getPackages" -> getPackagesResult(result)
    [] op = "createPackage" -> createPackageResult(result)
    [] op = "setPackageStatus" -> setPackageStatusResult(result)
    [] op = "getPackage" -> getPackageResult(result)
    [] op = "requestResult" -> requestResultResult(result)
    [] op = "getResult" -> getResultResult(result)
    [] op = "getBalance" -> getBalanceResult(result)

\* the outcome of a call of op whose request was answered with resp
Outcome(op, resp) ==
  LET r == apiCall(resp) IN IF r.kind = "throw" THEN r ELSE Then(op, r.value)

\* the response of a call in flight arrives and the call settles
\* (a variant that sends the request again when the transport failed)
Settle_Retry(call, resp) ==
  /\ last = NoCall
  /\ call \in BagToSet(pending)
  /\ IF resp.kind = "reject" /\ apiCall(resp).error = resp.error
       THEN /\ pending' = (pending (-) SetToBag({call}))
                            (+) SetToBag({[call EXCEPT !.sent = @ + 1]})
            /\ last' = last
       ELSE /\ pending' = pending (-) SetToBag({call})
            /\ last' = [op |-> call.op, args |-> call.args, req |-> call.req,
                        sent |-> call.sent, resp |-> resp,
                        out |-> Outcome(call.op, resp)]
  /\ UNCHANGED <<constructed, given, thrown, apiKey, instance>>

Settle(call, resp) ==
  /\ last = NoCall
  /\ call \in BagToSet(pending)
  /\ pending' = pending (-) SetToBag({call})
  /\ last' = [op |-> call.op, args |-> call.args, req |-> call.req,
              sent |-> call.sent, resp |-> resp, out |-> Outcome(call.op, resp)]
  /\ UNCHANGED <<constructed, given, thrown, apiKey, instance>>

\* the caller's await receives the value, or its catch the error
Deliver ==
  /\ last # NoCall
  /\ last' = NoCall
  /\ UNCHANGED <<constructed, given, thrown, apiKey, instance, pending>>

Next ==
  \/ \E key \in ApiKeys : Constructor(key)
  \/ getPackages
  \/ \E a \in CreateArgs : createPackage(a)
  \/ \E id \in Ids : setPackageStatus(id, Str("STOPPED"))
  \/ \E id \in Ids : getPackage(id)
  \/ \E id \in Ids : requestResult(id)
  \/ \E id \in Ids : getResult(id)
  \/ getBalance
  \/ \E call \in BagToSet(pending) : \E resp \in Responses[call.op] : Settle(call, resp)
  \/ Deliver

Spec == Init /\ [][Next]_vars

\* ------------------------------------------------------------ the claims
Settled == last # NoCall
Returned == Settled /\ last.out.kind = "return"

\* the transport reported an HTTP 401 response
Is401(resp) ==
  /\ resp.kind = "reject"
  /\ resp.error.response # Undefined
  /\ resp.error.response.status = 401

\* C1: constructing the client without a credential (nothing, null or the empty
\* string) fails with a TagiasError whose code is NOAPIKEY; no transport has been
\* created and no request has been issued.
C1_NoApiKeyFails ==
  (constructed # "no" /\ given \in {Undefined, Null, Str("")}) =>
    /\ constructed = "threw"
    /\ thrown.name = "TagiasError"
    /\ thrown.code = Str("NOAPIKEY")
    /\ apiKey = Undefined
    /\ instance = Undefined
    /\ pending = EmptyBag
    /\ last = NoCall

C1_Witness == constructed = "threw" /\ given = Str("") /\ thrown.name = "TagiasError"

\* C2: a call of any operation whose response is an HTTP 401 fails with a
\* TagiasError whose code is UNAUTHORIZED, whatever the body of that response is.
C2_Unauthorized ==
  (Settled /\ Is401(last.resp)) =>
    /\ last.op \in Ops
    /\ IsTagiasError(last.out)
    /\ last.out.error.code = Str("UNAUTHORIZED")

C2_Witness ==
  /\ Settled
  /\ last.op = "setPackageStatus"
  /\ last.resp = Reject(AxiosError([status |-> 401, data |-> OkBody]))
  /\ IsTagiasError(last.out)

\* the response came without a transport error and its body is a JSON object
\* whose status is not the literal "ok"
IsFailure(resp) ==
  /\ resp.kind = "resolve"
  /\ IsObject(resp.result.data)
  /\ Get(resp.result.data, "status") # Str("ok")

\* C3: a call of any operation answered, without a transport error, by a JSON
\* body whose status is not "ok" fails with a TagiasError whose code is the
\* body's error field; nothing is returned.
C3_FailureBody ==
  (Settled /\ IsFailure(last.resp)) =>
    /\ last.out.kind = "throw"
    /\ last.out.error.name = "TagiasError"
    /\ last.out.error.code = Get(last.resp.result.data, "error")

C3_Witness ==
  /\ Settled
  /\ last.op = "setPackageStatus"
  /\ last.resp = Resolve(ErrorBody("BADSTATUS"))
  /\ last.out.kind = "throw"

DateBearing ==
  LET data == last.resp.result.data
      value == last.out.value
  IN CASE last.op = "getPackages" ->
            {<<data.packages.v[i], value.v[i], "created">> : i \in DOMAIN data.packages.v}
       [] last.op = "getPackage" -> {<<data.package, value, f>> : f \in DateFields}
       [] last.op = "getResult" -> {<<data, value, "finished">>}
       [] last.op = "getBalance" ->
            {<<data.operations.v[i], value.operations.v[i], "date">> :
               i \in DOMAIN data.operations.v}
       [] OTHER -> {}

\* the arrays of the returned value are as long as those of the response
SameLengths ==
  LET data == last.resp.result.data
      value == last.out.value
  IN CASE last.op = "getPackages" -> DOMAIN value.v = DOMAIN data.packages.v
       [] last.op = "getBalance" -> DOMAIN value.operations.v = DOMAIN data.operations.v
       [] OTHER -> TRUE

\* C5, as stated: in a value returned, every date-bearing field that is present
\* in the response is a native date, and every one that is absent is absent.
C5_Original ==
  Returned =>
    /\ SameLengths
    /\ \A p \in DateBearing :
         IF p[3] \in DOMAIN p[1]
           THEN p[3] \in DOMAIN p[2] /\ IsDate(p[2][p[3]])
           ELSE p[3] \notin DOMAIN p[2]

\* C5, amended: in a value returned, every date-bearing field that the response
\* gives with a truthy value (a non-empty string) is the native date made from
\* that value, an invalid date when it does not parse; one that the response
\* gives with a falsy value (null, the empty string) is returned as it came; one
\* that is absent is absent.
C5_DatesConverted ==
  Returned =>
    /\ SameLengths
    /\ \A p \in DateBearing :
         CASE p[3] \notin DOMAIN p[1] -> p[3] \notin DOMAIN p[2]
           [] ~Truthy(p[1][p[3]]) ->
                p[3] \in DOMAIN p[2] /\ p[2][p[3]] = p[1][p[3]]
           [] OTHER ->
                /\ p[3] \in DOMAIN p[2]
                /\ IsDate(p[2][p[3]])
                /\ p[2][p[3]].valid = DateParse(p[1][p[3]].v).valid
                /\ p[2][p[3]].time = DateParse(p[1][p[3]].v).time

C5_Witness ==
  /\ Returned
  /\ last.op = "getPackage"
  /\ IsObject(Get(last.resp.result.data, "package"))
  /\ "started" \notin DOMAIN last.resp.result.data.package
  /\ "started" \notin DOMAIN last.out.value
  /\ Get(last.resp.result.data.package, "created") = Created
  /\ IsDate(last.out.value.created)
  /\ last.out.value.created.valid

\* C6, as stated: no item returned by getPackages or by getBalance has a status
\* field, and the object returned by getResult has no top-level status field.
C6_Original ==
  Returned =>
    CASE last.op = "getPackages" ->
           \A i \in DOMAIN last.out.value.v : "status" \notin DOMAIN last.out.value.v[i]
      [] last.op = "getBalance" ->
           \A i \in DOMAIN last.out.value.operations.v :
             "status" \notin DOMAIN last.out.value.operations.v[i]
      [] last.op = "getResult" -> "status" \notin DOMAIN last.out.value
      [] OTHER -> TRUE

\* C6, amended: the objects returned by getBalance and by getResult are the
\* response body without its top-level status field, and getPackages returns the
\* packages array alone, so the status of the envelope is never returned; every
\* returned item keeps the fields it came with, the status of a package included.
C6_EnvelopeStatusStripped ==
  Returned =>
    LET data == last.resp.result.data
        value == last.out.value
    IN CASE last.op = "getPackages" ->
              /\ value.t = "array"
              /\ DOMAIN value.v = DOMAIN data.packages.v
              /\ \A i \in DOMAIN value.v : DOMAIN value.v[i] = DOMAIN data.packages.v[i]
         [] last.op = "getBalance" ->
              /\ DOMAIN value = DOMAIN data \ {"status"}
              /\ DOMAIN value.operations.v = DOMAIN data.operations.v
              /\ \A i \in DOMAIN value.operations.v :
                   DOMAIN value.operations.v[i] = DOMAIN data.operations.v[i]
         [] last.op = "getResult" -> DOMAIN value = DOMAIN data \ {"status"}
         [] OTHER -> TRUE

C6_Witness ==
  /\ Returned
  /\ last.op = "getPackages"
  /\ Len(last.out.value.v) = 2
  /\ last.out.value.v[1].status = Str("ACTIVE")

\* the TagiasError objects of the state: what the constructor threw and what the
\* call that settled last threw
TagiasErrorsThrown ==
  (IF constructed = "threw" /\ thrown.name = "TagiasError" THEN {thrown} ELSE {})
  \cup (IF Settled /\ IsTagiasError(last.out) THEN {last.out.error} ELSE {})

\* the code a TagiasError of the state was built from
BuiltFrom ==
  IF constructed = "threw"
    THEN Str("NOAPIKEY")
    ELSE IF last.resp.kind = "reject"
           THEN Str("UNAUTHORIZED")
           ELSE Get(last.resp.result.data, "error")

\* C7: a TagiasError carries the code it was built from, and when that code is
\* one of the twelve codes of the taxonomy its message is the message of that
\* code: the entry the table gives for the code, which is not the message of an
\* unknown code and not the entry of any other code.
C7_CodeAndMessage ==
  \A e \in TagiasErrorsThrown :
    /\ e.code = BuiltFrom
    /\ (e.code.t = "string" /\ e.code.v \in TagiasErrors) =>
         /\ e.message = translateErrorCode(e.code)
         /\ e.message # translateErrorCode(Str("TEAPOT"))
         /\ \A c \in TagiasErrors \ {e.code.v} : e.message # translateErrorCode(Str(c))

C7_Witness ==
  /\ Settled
  /\ IsTagiasError(last.out)
  /\ last.out.error.code = Str("BADBASEURL")
  /\ last.out.error.message = "The baseurl URL is malformed"

\* the requests issued so far that the state holds: those of the calls in flight
\* and that of the call that settled last
Requests ==
  {call.req : call \in BagToSet(pending)} \cup (IF Settled THEN {last.req} ELSE {})

\* C8: every request carries an Authorization header that contains the
\* credential the client was constructed with, and Content-Type application/json.
C8_Headers ==
  \A req \in Requests :
    /\ given.t = "string"
    /\ req.headers["Authorization"] = "Api-Key " \o given.v
    /\ req.headers["Content-Type"] = "application/json"

C8_Witness ==
  /\ Settled
  /\ given = Str("whLUN5vk")
  /\ BagCardinality(pending) = 1
  /\ last.req.headers["Authorization"] = "Api-Key whLUN5vk"

\* the calls the state holds: those in flight and the one that settled last
Calls == BagToSet(pending) \cup (IF Settled THEN {last} ELSE {})

\* C9: every call sends the verb, the path under the base URL and the body fixed
\* for its operation, the path ending in the id the call was given.
C9_VerbAndPath ==
  \A call \in Calls :
    LET req == call.req
        a == call.args
        base == "https://p.tagias.com/api/v2/tagias"
    IN CASE call.op = "getPackages" ->
              req.method = "get" /\ req.url = base \o "/packages" /\ req.data = Undefined
         [] call.op = "createPackage" ->
              /\ req.method = "post"
              /\ req.url = base \o "/packages"
              /\ DOMAIN req.data = {"name", "type", "descr", "labels", "callback",
                                     "baseurl", "pictures", "labels_required"}
              /\ \A f \in DOMAIN req.data \ {"labels_required"} : req.data[f] = a[f]
              /\ req.data.labels_required \in {a.labels_required, Null}
              /\ a.labels_required # Undefined =>
                   req.data.labels_required = a.labels_required
         [] call.op = "setPackageStatus" ->
              /\ req.method = "patch"
              /\ req.url = base \o "/packages/" \o a.id.v
              /\ req.data = [status |-> a.status]
         [] call.op = "getPackage" ->
              /\ req.method = "get"
              /\ req.url = base \o "/packages/" \o a.id.v
              /\ req.data = Undefined
         [] call.op = "requestResult" ->
              /\ req.method = "post"
              /\ req.url = base \o "/packages/result/" \o a.id.v
              /\ req.data = Undefined
         [] call.op = "getResult" ->
              /\ req.method = "get"
              /\ req.url = base \o "/packages/result/" \o a.id.v
              /\ req.data = Undefined
         [] call.op = "getBalance" ->
              req.method = "get" /\ req.url = base \o "/balance" /\ req.data = Undefined
         [] OTHER -> FALSE

C9_Witness ==
  /\ Settled
  /\ last.op = "getResult"
  /\ last.args.id = Str("p2")
  /\ last.req.url = "https://p.tagias.com/api/v2/tagias/packages/result/p2"

\* the number of pictures a server that counts them finds in a request
Counted(req) ==
  IF Get(req.data, "pictures").t = "array" THEN Len(req.data.pictures.v) ELSE 0

\* C10: createPackage, answered with status "ok", returns an object of exactly
\* id and pictures_num, both as the response gives them; when the server counted
\* the pictures of the request, pictures_num is the length of the pictures array
\* the call was given.
C10_CreateRoundTrip ==
  (Settled /\ last.op = "createPackage" /\ last.resp.kind = "resolve"
     /\ IsObject(last.resp.result.data)
     /\ Get(last.resp.result.data, "status") = Str("ok")) =>
    /\ last.out.kind = "return"
    /\ DOMAIN last.out.value = {"id", "pictures_num"}
    /\ last.out.value.id = Get(last.resp.result.data, "id")
    /\ last.out.value.pictures_num = Get(last.resp.result.data, "pictures_num")
    /\ Get(last.resp.result.data, "pictures_num") = Num(Counted(last.req)) =>
         last.out.value.pictures_num = Num(Len(last.args.pictures.v))

C10_Witness ==
  /\ Returned
  /\ last.op = "createPackage"
  /\ Len(last.args.pictures.v) = 2
  /\ last.resp.result.data = [status |-> Str("ok"), id |-> Str("p3"), pictures_num |-> Num(2)]
  /\ last.out.value = [id |-> Str("p3"), pictures_num |-> Num(2)]

\* the call that settled, as it was in flight
InFlight(l) == [f \in DOMAIN l \ {"resp", "out"} |-> l[f]]

\* C11: once the client is constructed no step changes its credential or its
\* transport configuration; a call that starts leaves the calls in flight as
\* they are; a call that settles is one that was in flight, leaves the other
\* calls in flight as they are, and its outcome is what its own operation makes
\* of its own response, whatever else is in flight.
C11_CallsIndependent ==
  [][/\ constructed = "yes" =>
          /\ constructed' = "yes"
          /\ given' = given
          /\ apiKey' = apiKey
          /\ instance' = instance
     /\ BagCardinality(pending') > BagCardinality(pending) =>
          /\ \E call \in BagToSet(pending') : pending' = pending (+) SetToBag({call})
          /\ last' = last
     /\ (last = NoCall /\ last' # NoCall) =>
          /\ InFlight(last') \in BagToSet(pending)
          /\ pending' = pending (-) SetToBag({InFlight(last')})
          /\ last'.out = Outcome(last'.op, last'.resp)
     /\ (last # NoCall /\ last' = NoCall) => pending' = pending
    ]_vars

\* two calls were in flight together, with different requests, and one settled
C11_Witness ==
  /\ Settled
  /\ BagCardinality(pending) = 1
  /\ \E call \in BagToSet(pending) : call.op # last.op /\ call.req # last.req
  /\ last.op = "getPackage"
  /\ last.out.kind = "return"

\* C12: every call the state holds has had its request sent exactly once; a
\* step that settles a call, with a result, a TagiasError or a transport error,
\* takes that call out of the calls in flight and sends nothing; handing the
\* outcome to the caller sends nothing; any other step that changes the calls in
\* flight starts one call with one request.
C12_FireOnce ==
  [][/\ \A call \in Calls' : call.sent = 1
     /\ (last = NoCall /\ last' # NoCall) =>
          /\ BagCardinality(pending') = BagCardinality(pending) - 1
          /\ BagToSet(pending') \subseteq BagToSet(pending)
     /\ (last # NoCall /\ last' = NoCall) => pending' = pending
     /\ (last' = last /\ pending' # pending) =>
          BagCardinality(pending') = BagCardinality(pending) + 1
    ]_vars

\* a call ended in a transport error and nothing is in flight after it
C12_Witness ==
  /\ Settled
  /\ last.sent = 1
  /\ last.resp = Reject(AxiosError(Undefined))
  /\ last.out = Throw(last.resp.error)
  /\ pending = EmptyBag
====
